---- MODULE Spec2Model ----
(***************************************************************************)
(* A model of src/src/App.tsx: the React component App that bootstraps a   *)
(* DuckDB-WASM engine, and on every change of (db, minClass, maxClass)     *)
(* runs loadData: connect, load extensions, register the view, discover    *)
(* the schema, build and run the filter query, materialize the features,   *)
(* publish them with setData and close the connection.                     *)
(***************************************************************************)
EXTENDS Integers, Sequences, FiniteSets, TLC

VARIABLES
  boot,         \* position of the bootstrap effect (App.tsx 22-39)
  isCancelled,  \* the bootstrap effect's flag (App.tsx 23, 37)
  db,           \* useState db: "null" or "ready" (App.tsx 16)
  data,         \* useState data: the published FeatureCollection or null (App.tsx 17)
  minClass,     \* useState minClass (App.tsx 18)
  maxClass,     \* useState maxClass (App.tsx 19)
  status,       \* useState status (App.tsx 20)
  dataset,      \* the remote parquet file behind PARQUET_URL: its columns and rows
  runs,         \* the calls of loadData made so far, in trigger order
  conns,        \* the engine's connections: "unused", "open" or "closed"
  res,          \* the table the last resolved filter query returned (App.tsx 86)
  views,        \* the engine's catalog: for each view, the files it selects from
  queryLog,     \* history: the (run, connection) pairs on which a query was issued
  writers       \* history: the calls of setData, in call order: the run, the
                \* filter range of the component at the call and the features

vars == <<boot, isCancelled, db, data, minClass, maxClass, status, dataset,
          runs, conns, res, views, queryLog, writers>>

----------------------------------------------------------------------------
(* Bounds of the model. *)

MaxRuns == 2      \* loadData calls in one behaviour
MaxCols == 2      \* columns of a drawn schema
MaxRows == 2      \* rows of a drawn dataset

----------------------------------------------------------------------------
(* Strings: String.prototype.includes, toLowerCase, toUpperCase. *)

Includes(s, sub) ==
  \E i \in 1..(Len(s) - Len(sub) + 1) : SubSeq(s, i, i + Len(sub) - 1) = sub

UpperChars == "ABCDEFGHIJKLMNOPQRSTUVWXYZ"
LowerChars == "abcdefghijklmnopqrstuvwxyz"

CharAt(s, i) == SubSeq(s, i, i)

\* The character-to-character table that maps from[i] to to[i].
CharMap(from, to) ==
  [c \in {CharAt(from, i) : i \in 1..Len(from)} |->
    CharAt(to, CHOOSE i \in 1..Len(from) : CharAt(from, i) = c)]

ToLowerChar == CharMap(UpperChars, LowerChars)
ToUpperChar == CharMap(LowerChars, UpperChars)

RECURSIVE MapString(_, _)
MapString(s, map) ==
  IF s = "" THEN ""
  ELSE (IF CharAt(s, 1) \in DOMAIN map THEN map[CharAt(s, 1)] ELSE CharAt(s, 1))
         \o MapString(SubSeq(s, 2, Len(s)), map)

toLowerCase(s) == MapString(s, ToLowerChar)
toUpperCase(s) == MapString(s, ToUpperChar)

----------------------------------------------------------------------------
(* Nullable cells of a query result. *)

Null == [null |-> TRUE, v |-> ""]
Text(s) == [null |-> FALSE, v |-> s]
NullInt == [null |-> TRUE, v |-> 0]
Int32(n) == [null |-> FALSE, v |-> n]

----------------------------------------------------------------------------
(* Schema discovery and column-role resolution (App.tsx 59-68). *)

\* schema = columnNames.map((n, i) => ({name: n.toLowerCase(), type: (dataTypes[i] || '').toUpperCase()}))
Schema(cols) ==
  [i \in 1..Len(cols) |->
    [name |-> toLowerCase(cols[i].column_name), type |-> toUpperCase(cols[i].data_type)]]

GeomCands == <<"geometry", "geom", "wkb_geometry", "wkb", "the_geom">>
ClassCands == <<"class", "class_id", "classval", "class_val", "cls", "value", "category">>

\* cands.includes(name)
CandsInclude(cands, name) == \E k \in 1..Len(cands) : cands[k] = name

\* Array.prototype.find, as an index: the first element of schema, from position i
\* on, whose name is one of cands; 0 when there is none (undefined).
RECURSIVE FindFrom(_, _, _)
FindFrom(schema, cands, i) ==
  IF i > Len(schema) THEN 0
  ELSE IF CandsInclude(cands, schema[i].name) THEN i
  ELSE FindFrom(schema, cands, i + 1)

\* A plausible slip: the candidates tested in their listed order, each against the
\* whole schema.
RECURSIVE FindByCandidate(_, _, _)
FindByCandidate(schema, cands, k) ==
  IF k > Len(cands) THEN 0
  ELSE IF \E i \in 1..Len(schema) : schema[i].name = cands[k]
    THEN CHOOSE i \in 1..Len(schema) : schema[i].name = cands[k]
  ELSE FindByCandidate(schema, cands, k + 1)

findColByPriority(schema, cands) == FindByCandidate(schema, cands, 1)

\* const findCol = (cands) => schema.find(c => cands.includes(c.name))
findCol(schema, cands) == FindFrom(schema, cands, 1)

\* A plausible slip: the fallback names the first column of the schema.
ColNameFirstColumn(schema, i, dflt) ==
  IF i # 0 /\ schema[i].name # "" THEN schema[i].name
  ELSE IF Len(schema) > 0 THEN schema[1].name ELSE dflt

\* geomCand?.name || 'geometry'   and   classCand?.name || 'class'
ColName(schema, i, dflt) == IF i # 0 /\ schema[i].name # "" THEN schema[i].name ELSE dflt

\* geomCand?.type || ''
ColType(schema, i) == IF i # 0 THEN schema[i].type ELSE ""

\* A plausible slip: only the declared type is looked at.
geomExprTypeOnly(geomCol, geomType) ==
  IF Includes(geomType, "BLOB")
    THEN "ST_GeomFromWKB(\"" \o geomCol \o "\")"
    ELSE "TRY_CAST(\"" \o geomCol \o "\" AS GEOMETRY)"

\* geomExpr (App.tsx 71-73)
geomExpr(geomCol, geomType) ==
  IF Includes(geomType, "BLOB") \/ Includes(geomCol, "wkb")
    THEN "ST_GeomFromWKB(\"" \o geomCol \o "\")"
    ELSE "TRY_CAST(\"" \o geomCol \o "\" AS GEOMETRY)"

\* classExpr (App.tsx 74)
classExpr(classCol) == "TRY_CAST(\"" \o classCol \o "\" AS INT)"

\* The resolved roles and the query built from them (App.tsx 63-85): the two
\* select expressions and the bounds interpolated into the WHERE clause.
BuildSql(cols, minVal, maxVal) ==
  LET schema == Schema(cols)
      geomCand == findCol(schema, GeomCands)
      classCand == findCol(schema, ClassCands)
      geomCol == ColName(schema, geomCand, "geometry")
      geomType == ColType(schema, geomCand)
      classCol == ColName(schema, classCand, "class")
  IN [geomCol |-> geomCol, geomType |-> geomType, classCol |-> classCol,
      geomExpr |-> geomExpr(geomCol, geomType), classExpr |-> classExpr(classCol),
      minVal |-> minVal, maxVal |-> maxVal]

NoSql == [geomCol |-> "", geomType |-> "", classCol |-> "", geomExpr |-> "",
          classExpr |-> "", minVal |-> 0, maxVal |-> 0]

----------------------------------------------------------------------------
(* The engine's evaluation of the query (the SQL text of App.tsx 76-85). *)

Digits == "0123456789"
DigitValue ==
  [c \in {CharAt(Digits, i) : i \in 1..Len(Digits)} |->
    (CHOOSE i \in 1..Len(Digits) : CharAt(Digits, i) = c) - 1]
IsDigit(c) == c \in DOMAIN DigitValue
IsIntText(s) == Len(s) > 0 /\ \A i \in 1..Len(s) : IsDigit(CharAt(s, i))

RECURSIVE ParseInt(_, _)
ParseInt(s, acc) ==
  IF s = "" THEN acc
  ELSE ParseInt(SubSeq(s, 2, Len(s)), 10 * acc + DigitValue[CharAt(s, 1)])

\* TRY_CAST(x AS INT): NULL stays NULL, a cast that would throw yields NULL.
TryCastInt(cell) ==
  IF cell.null \/ ~IsIntText(cell.v) THEN NullInt ELSE Int32(ParseInt(cell.v, 0))

\* The binder finds the selected columns in the view gp (identifiers are
\* case-insensitive).
ColumnExists(cols, name) ==
  \E i \in 1..Len(cols) : toLowerCase(cols[i].column_name) = name

SqlBinds(ds, sql) == ColumnExists(ds.schema, sql.geomCol) /\ ColumnExists(ds.schema, sql.classCol)

\* WITH base AS (SELECT ST_AsGeoJSON(geomExpr) AS geojson, classExpr AS class_val FROM gp)
Base(ds) ==
  [i \in 1..Len(ds.rows) |->
    [geojson |-> ds.rows[i].g, class_val |-> TryCastInt(ds.rows[i].a)]]

\* A plausible slip: the null passthrough left out of the predicate.
WhereNoNullPassthrough(row, minVal, maxVal) ==
  /\ ~row.geojson.null
  /\ ~row.class_val.null
  /\ row.class_val.v >= minVal /\ row.class_val.v <= maxVal

\* A plausible slip: BETWEEN taken as symmetric, the bounds swapped when min > max.
WhereSymmetricBetween(row, minVal, maxVal) ==
  /\ ~row.geojson.null
  /\ \/ row.class_val.null
     \/ (row.class_val.v >= minVal /\ row.class_val.v <= maxVal)
     \/ (row.class_val.v >= maxVal /\ row.class_val.v <= minVal)

\* WHERE geojson IS NOT NULL AND (class_val IS NULL OR (class_val BETWEEN min AND max))
Where(row, minVal, maxVal) ==
  /\ ~row.geojson.null
  /\ \/ row.class_val.null
     \/ (row.class_val.v >= minVal /\ row.class_val.v <= maxVal)

\* The file a view selects from: read_parquet(PARQUET_URL) (App.tsx 51).
ParquetFile == "PARQUET_URL"
NoViews == [gp |-> <<>>]

\* A plausible slip: the view is extended by the file on every registration.
CreateViewAccumulating(vs) == [vs EXCEPT !.gp = Append(@, ParquetFile)]

\* CREATE OR REPLACE VIEW gp AS SELECT * FROM read_parquet(PARQUET_URL): the
\* definition of gp is replaced, whatever it was.
CreateOrReplaceView(vs) == [vs EXCEPT !.gp = <<ParquetFile>>]

\* The rows a view yields: the rows of each file it selects from, in order.
RECURSIVE ScanRows(_, _)
ScanRows(files, ds) ==
  IF files = <<>> THEN <<>> ELSE ds.rows \o ScanRows(Tail(files), ds)

\* The table gp as the engine sees it: no column while the view is not created.
Gp(vs, ds) ==
  [schema |-> IF vs.gp = <<>> THEN <<>> ELSE ds.schema, rows |-> ScanRows(vs.gp, ds)]

QueryResult(ds, sql) == SelectSeq(Base(ds), LAMBDA row : Where(row, sql.minVal, sql.maxVal))

----------------------------------------------------------------------------
(* Materialization of the result (App.tsx 87-99). *)

\* JSON.parse on a geometry text: an object text parses to its geometry, any
\* other text throws a SyntaxError.
JsonParses(t) == Len(t) >= 2 /\ CharAt(t, 1) = "{" /\ CharAt(t, Len(t)) = "}"
JsonParse(t) == SubSeq(t, 2, Len(t) - 1)

\* A plausible slip: classArr[i] || null, which turns the class 0 into null.
ClassAtFalsy(classArr, i) ==
  IF i <= Len(classArr) /\ classArr[i].v # 0 THEN classArr[i] ELSE NullInt

\* classArr[i] ?? null
ClassAt(classArr, i) == IF i <= Len(classArr) THEN classArr[i] ELSE NullInt

\* The loop of App.tsx 93-99 from index i on, with the features pushed so far:
\* it ends with the features, or thrown at the first cell that does not parse.
RECURSIVE Loop(_, _, _, _)
Loop(geojsonArr, classArr, i, features) ==
  IF i > Len(geojsonArr) THEN [thrown |-> FALSE, features |-> features]
  ELSE IF geojsonArr[i].null \/ geojsonArr[i].v = ""
    THEN Loop(geojsonArr, classArr, i + 1, features)
  ELSE IF ~JsonParses(geojsonArr[i].v) THEN [thrown |-> TRUE, features |-> features]
  ELSE Loop(geojsonArr, classArr, i + 1,
            Append(features, [geometry |-> JsonParse(geojsonArr[i].v),
                              properties |-> [class_val |-> ClassAt(classArr, i)]]))

\* The table of a result: its rows as two columns (App.tsx 87-90).
Table(rows) ==
  [geojson |-> [i \in 1..Len(rows) |-> rows[i].geojson],
   class_val |-> [i \in 1..Len(rows) |-> rows[i].class_val]]
NoTable == Table(<<>>)

\* The features of a table (App.tsx 89-99).
MaterializeTable(table) == Loop(table.geojson, table.class_val, 1, <<>>)

Materialize(rows) == MaterializeTable(Table(rows))

----------------------------------------------------------------------------
(* The state after construction (App.tsx 16-20). *)

\* The bounds of the two number inputs (App.tsx 149, 151), which are also the
\* initial filter range (App.tsx 18, 19); the inputs take these two values.
MinInput == 1
MaxInput == 25
FilterValues == {MinInput, MaxInput}

NoData == [present |-> FALSE, features |-> <<>>]
Collection(features) == [present |-> TRUE, features |-> features]

Status(msg) == [msg |-> msg, n |-> 0]
\* `Loaded ${features.features.length} features`
Loaded(n) == [msg |-> "Loaded features", n |-> n]

Column(name, type) == [column_name |-> name, data_type |-> type]
Row(g, a) == [g |-> g, a |-> a]

\* The file of the scenario of the documentation: a WKB geometry column and an
\* integer class column; and the same file with one geometry text that is not JSON.
CleanDataset ==
  [schema |-> <<Column("geom", "WKB_BLOB"), Column("class_id", "INTEGER")>>,
   rows |-> <<Row(Text("{P}"), Text("1")), Row(Text("{Q}"), Text("25"))>>]
DirtyDataset ==
  [schema |-> <<Column("geom", "WKB_BLOB"), Column("class_id", "INTEGER")>>,
   rows |-> <<Row(Text("{P}"), Text("1")), Row(Text("{bad"), Text("25"))>>]

\* The connections the engine can hand out in one behaviour.
ConnIds == 1..(MaxRuns + 1)

InitApp ==
  /\ boot = "mount"
  /\ isCancelled = FALSE
  /\ db = "null"
  /\ data = NoData
  /\ minClass = MinInput
  /\ maxClass = MaxInput
  /\ status = Status("Initializing...")
  /\ runs = <<>>
  /\ conns = [c \in ConnIds |-> "unused"]
  /\ views = NoViews
  /\ queryLog = {}
  /\ writers = <<>>

Init == InitApp /\ res = NoTable /\ dataset \in {CleanDataset, DirtyDataset}

----------------------------------------------------------------------------
(* The bootstrap effect (App.tsx 22-39). *)

\* The effect runs on mount: setStatus('Loading DuckDB...'), then awaits selectBundle.
BootstrapStart ==
  /\ boot = "mount"
  /\ boot' = "selectBundle"
  /\ status' = Status("Loading DuckDB...")
  /\ UNCHANGED <<isCancelled, db, data, minClass, maxClass, dataset, runs, conns,
                 queryLog, writers, views, res>>

\* selectBundle resolves; the worker and the engine are created; instantiate is awaited.
SelectBundleOk ==
  /\ boot = "selectBundle"
  /\ boot' = "instantiate"
  /\ UNCHANGED <<isCancelled, db, data, minClass, maxClass, status, dataset, runs,
                 conns, queryLog, writers, views, res>>

\* selectBundle, new Worker or instantiate throws: the async function rejects, unhandled.
BootstrapFail ==
  /\ boot \in {"selectBundle", "instantiate"}
  /\ boot' = "failed"
  /\ UNCHANGED <<isCancelled, db, data, minClass, maxClass, status, dataset, runs,
                 conns, queryLog, writers, views, res>>

\* A plausible slip: the handle is published without the check of isCancelled.
InstantiateOkUnguarded ==
  /\ boot = "instantiate"
  /\ boot' = "effect" /\ db' = "ready" /\ status' = Status("DuckDB ready")
  /\ UNCHANGED <<isCancelled, data, minClass, maxClass, dataset, runs, conns,
                 queryLog, writers, views, res>>

\* instantiate resolves: if (isCancelled) return; setDb(_db); setStatus('DuckDB ready').
InstantiateOk ==
  /\ boot = "instantiate"
  /\ IF isCancelled
       THEN boot' = "cancelled" /\ UNCHANGED <<db, status, views, res>>
       ELSE boot' = "effect" /\ db' = "ready" /\ status' = Status("DuckDB ready")
  /\ UNCHANGED <<isCancelled, data, minClass, maxClass, dataset, runs, conns,
                 queryLog, writers, views, res>>

\* The cleanup of the bootstrap effect, on teardown of the component while the
\* engine is still being bootstrapped.
Unmount ==
  /\ boot \in {"selectBundle", "instantiate"}
  /\ ~isCancelled
  /\ isCancelled' = TRUE
  /\ UNCHANGED <<boot, db, data, minClass, maxClass, status, dataset, runs, conns,
                 queryLog, writers, views, res>>

----------------------------------------------------------------------------
(* The pipeline trigger (App.tsx 108-111) and the start of loadData (42-44). *)

\* loadData(db, minVal, maxVal) up to its first await: setStatus('Querying ...')
\* and the call of db.connect().
NewRun(minVal, maxVal) ==
  [pc |-> "connect", q |-> 0, minVal |-> minVal, maxVal |-> maxVal, conn |-> 0,
   sql |-> NoSql, thrown |-> FALSE]

StartRun(minVal, maxVal) ==
  /\ runs' = Append(runs, NewRun(minVal, maxVal))
  /\ status' = Status("Querying parquet via HTTP...")

\* A plausible slip: the guard on db left out, so that the effect of the first
\* render connects before the handle is published.
TriggerUnguarded ==
  /\ boot \in {"selectBundle", "effect"}
  /\ Len(runs) < MaxRuns
  /\ boot' = IF boot = "effect" THEN "done" ELSE boot
  /\ StartRun(minClass, maxClass)
  /\ UNCHANGED <<isCancelled, db, data, minClass, maxClass, dataset, conns,
                 queryLog, writers, views, res>>

\* The effect after the render that follows setDb: db is set, loadData is called
\* with the filter range of that render.
TriggerOnReady ==
  /\ boot = "effect"
  /\ Len(runs) < MaxRuns
  /\ boot' = "done"
  /\ StartRun(minClass, maxClass)
  /\ UNCHANGED <<isCancelled, db, data, minClass, maxClass, dataset, conns,
                 queryLog, writers, views, res>>

\* onChange of an input (App.tsx 149, 151): setMinClass or setMaxClass with a new
\* value.
SetFilter(minVal, maxVal) ==
  /\ <<minVal, maxVal>> # <<minClass, maxClass>>
  /\ minVal = minClass \/ maxVal = maxClass
  /\ minClass' = minVal
  /\ maxClass' = maxVal

\* A filter change while db is null: the effect returns at `if (!db) return`.
FilterChangeIdle ==
  /\ boot \in {"selectBundle", "instantiate", "failed"}
  /\ ~isCancelled
  /\ db = "null"
  /\ \E minVal \in FilterValues, maxVal \in FilterValues : SetFilter(minVal, maxVal)
  /\ UNCHANGED <<boot, isCancelled, db, data, status, dataset, runs, conns,
                 queryLog, writers, views, res>>

\* A plausible slip: the filter range left out of the effect's dependencies, so
\* that a change of the range calls loadData no more.
FilterChangeNoRerun ==
  /\ boot = "done"
  /\ db = "ready"
  /\ Len(runs) < MaxRuns
  /\ \E minVal \in FilterValues, maxVal \in FilterValues : SetFilter(minVal, maxVal)
  /\ UNCHANGED <<boot, isCancelled, db, data, status, dataset, runs, conns, queryLog,
                 writers, views, res>>

\* A filter change while db is set: the effect calls loadData with the new range.
FilterChangeReady ==
  /\ boot = "done"
  /\ db = "ready"
  /\ Len(runs) < MaxRuns
  /\ \E minVal \in FilterValues, maxVal \in FilterValues :
       /\ SetFilter(minVal, maxVal)
       /\ StartRun(minVal, maxVal)
  /\ UNCHANGED <<boot, isCancelled, db, data, dataset, conns, queryLog, writers, views, res>>

----------------------------------------------------------------------------
(* The steps of loadData (App.tsx 44-104), one per await. *)

\* The setup queries of App.tsx 46-51, awaited in sequence: the engine's
\* capabilities (INSTALL and LOAD of httpfs and spatial, SET of the metadata
\* cache) and the registration of the view. They read and write no state of the
\* component, so each group is one step of a run.
SetupQueries ==
  <<"INSTALL httpfs; LOAD httpfs; INSTALL spatial; LOAD spatial; SET enable_http_metadata_cache=true;",
    "CREATE OR REPLACE VIEW gp AS SELECT * FROM read_parquet(PARQUET_URL);">>

InFlight(r) == r \in 1..Len(runs) /\ runs[r].pc # "done"

\* A plausible slip: the connection is closed on the success path only.
ThrownNoFinally(run) == [run EXCEPT !.pc = "done", !.thrown = TRUE]

\* An exception inside the try block: the finally block calls conn.close() and
\* awaits it; the rejection of loadData stays unhandled.
Thrown(run) == [run EXCEPT !.pc = "close", !.thrown = TRUE]

\* A plausible slip: a connection that is still open is handed out again.
SharedConn(cs) ==
  IF \E c \in DOMAIN cs : cs[c] = "open"
    THEN CHOOSE c \in DOMAIN cs : cs[c] = "open"
    ELSE CHOOSE c \in DOMAIN cs : cs[c] = "unused"

\* db.connect(): the engine creates a new connection.
NewConn(cs) ==
  CHOOSE c \in DOMAIN cs : cs[c] = "unused" /\ \A d \in DOMAIN cs : d < c => cs[d] # "unused"

\* conn.query(text) is called on the connection of the run.
Issue(r, c) == queryLog' = queryLog \cup {<<r, c>>}

\* db.connect() resolves; the first setup query is issued.
ConnectOk(r) ==
  /\ InFlight(r) /\ runs[r].pc = "connect"
  /\ LET c == NewConn(conns) IN
       /\ conns' = [conns EXCEPT ![c] = "open"]
       /\ runs' = [runs EXCEPT ![r] = [@ EXCEPT !.pc = "setup", !.q = 1, !.conn = c]]
       /\ Issue(r, c)
  /\ UNCHANGED <<boot, isCancelled, db, data, minClass, maxClass, status, dataset, writers, views, res>>

\* db.connect() rejects: the try block is never entered, no connection exists.
ConnectFail(r) ==
  /\ InFlight(r) /\ runs[r].pc = "connect"
  /\ runs' = [runs EXCEPT ![r] = [@ EXCEPT !.pc = "done", !.thrown = TRUE]]
  /\ UNCHANGED <<boot, isCancelled, db, data, minClass, maxClass, status, dataset,
                 conns, queryLog, writers, views, res>>

\* A setup query resolves (App.tsx 46-51); the next query is issued: the next
\* setup query or, after the view is registered, the schema query.
SetupOk(r) ==
  /\ InFlight(r) /\ runs[r].pc = "setup"
  /\ runs' = [runs EXCEPT ![r] =
       IF @.q < Len(SetupQueries) THEN [@ EXCEPT !.q = @ + 1] ELSE [@ EXCEPT !.pc = "cols"]]
  /\ views' = IF runs[r].q < Len(SetupQueries) THEN views ELSE CreateOrReplaceView(views)
  /\ Issue(r, runs[r].conn)
  /\ UNCHANGED <<boot, isCancelled, db, data, minClass, maxClass, status, dataset,
                 conns, writers, res>>

\* A setup query rejects: extension loading or view registration failed.
SetupFail(r) ==
  /\ InFlight(r) /\ runs[r].pc = "setup"
  /\ runs' = [runs EXCEPT ![r] = Thrown(@)]
  /\ UNCHANGED <<boot, isCancelled, db, data, minClass, maxClass, status, dataset,
                 conns, queryLog, writers, views, res>>

\* A plausible slip: the query is built from the range of the component at the
\* time the schema query resolves, not from the arguments of the call.
ColsOkCurrentRange(r) ==
  /\ InFlight(r) /\ runs[r].pc = "cols"
  /\ runs' = [runs EXCEPT ![r] =
       [@ EXCEPT !.pc = "query", !.sql = BuildSql(Gp(views, dataset).schema, minClass, maxClass)]]
  /\ Issue(r, runs[r].conn)
  /\ UNCHANGED <<boot, isCancelled, db, data, minClass, maxClass, status, dataset,
                 conns, writers, views, res>>

\* The schema query resolves (App.tsx 54-58); the roles are resolved, the query
\* is built and issued (App.tsx 59-86).
ColsOk(r) ==
  /\ InFlight(r) /\ runs[r].pc = "cols"
  /\ runs' = [runs EXCEPT ![r] =
       [@ EXCEPT !.pc = "query", !.sql = BuildSql(Gp(views, dataset).schema, runs[r].minVal, runs[r].maxVal)]]
  /\ Issue(r, runs[r].conn)
  /\ UNCHANGED <<boot, isCancelled, db, data, minClass, maxClass, status, dataset,
                 conns, writers, views, res>>

\* The schema query rejects.
ColsFail(r) ==
  /\ InFlight(r) /\ runs[r].pc = "cols"
  /\ runs' = [runs EXCEPT ![r] = Thrown(@)]
  /\ UNCHANGED <<boot, isCancelled, db, data, minClass, maxClass, status, dataset,
                 conns, queryLog, writers, views, res>>

\* A plausible slip: a catch block that reports the failure of the query.
QueryFailReported(r) ==
  /\ InFlight(r) /\ runs[r].pc = "query"
  /\ runs' = [runs EXCEPT ![r] = Thrown(@)]
  /\ status' = Status("Query failed")
  /\ UNCHANGED <<boot, isCancelled, db, data, minClass, maxClass, dataset,
                 conns, queryLog, writers, views, res>>

\* The filter query rejects: a column the query names is missing, or the remote
\* read fails.
QueryFail(r) ==
  /\ InFlight(r) /\ runs[r].pc = "query"
  /\ runs' = [runs EXCEPT ![r] = Thrown(@)]
  /\ UNCHANGED <<boot, isCancelled, db, data, minClass, maxClass, status, dataset,
                 conns, queryLog, writers, views, res>>

\* The filter query resolves with the rows the engine selected.
Resolves(r) ==
  /\ InFlight(r) /\ runs[r].pc = "query"
  /\ SqlBinds(Gp(views, dataset), runs[r].sql)

\* setData(features) is called by run r while the component's range is
\* (minClass, maxClass).
Write(r, features) ==
  [r |-> r, minClass |-> minClass, maxClass |-> maxClass, features |-> features]

\* A plausible slip: the features parsed before the bad cell are published.
ParseFailPartial(r) ==
  /\ Resolves(r)
  /\ LET m == Materialize(QueryResult(Gp(views, dataset), runs[r].sql)) IN
       /\ m.thrown
       /\ data' = Collection(m.features)
       /\ writers' = Append(writers, Write(r, m.features))
  /\ res' = Table(QueryResult(Gp(views, dataset), runs[r].sql))
  /\ runs' = [runs EXCEPT ![r] = Thrown(@)]
  /\ UNCHANGED <<boot, isCancelled, db, minClass, maxClass, status, dataset, conns,
                 queryLog, views>>

\* The filter query resolves and JSON.parse throws on a cell (App.tsx 96).
ParseFail(r) ==
  /\ Resolves(r)
  /\ Materialize(QueryResult(Gp(views, dataset), runs[r].sql)).thrown
  /\ res' = Table(QueryResult(Gp(views, dataset), runs[r].sql))
  /\ runs' = [runs EXCEPT ![r] = Thrown(@)]
  /\ UNCHANGED <<boot, isCancelled, db, data, minClass, maxClass, status, dataset,
                 conns, queryLog, writers, views>>

\* A plausible slip: the message counts the features of the state variable data,
\* which still holds the collection of the render, not the new features.
PublishStaleCount(r) ==
  /\ Resolves(r)
  /\ LET m == Materialize(QueryResult(Gp(views, dataset), runs[r].sql)) IN
       /\ ~m.thrown
       /\ data' = Collection(m.features)
       /\ status' = Loaded(Len(data.features))
       /\ writers' = Append(writers, Write(r, m.features))
  /\ res' = Table(QueryResult(Gp(views, dataset), runs[r].sql))
  /\ runs' = [runs EXCEPT ![r] = [@ EXCEPT !.pc = "close"]]
  /\ UNCHANGED <<boot, isCancelled, db, minClass, maxClass, dataset, conns, queryLog, views>>

\* The filter query resolves and every cell parses: setData(features);
\* setStatus(`Loaded N features`); the finally block calls conn.close().
Publish(r) ==
  /\ Resolves(r)
  /\ LET m == Materialize(QueryResult(Gp(views, dataset), runs[r].sql)) IN
       /\ ~m.thrown
       /\ data' = Collection(m.features)
       /\ status' = Loaded(Len(m.features))
       /\ writers' = Append(writers, Write(r, m.features))
  /\ res' = Table(QueryResult(Gp(views, dataset), runs[r].sql))
  /\ runs' = [runs EXCEPT ![r] = [@ EXCEPT !.pc = "close"]]
  /\ UNCHANGED <<boot, isCancelled, db, minClass, maxClass, dataset, conns, queryLog, views>>

\* A plausible slip: loadData settles without the connection being closed.
CloseSkipped(r) ==
  /\ InFlight(r) /\ runs[r].pc = "close"
  /\ runs' = [runs EXCEPT ![r] = [@ EXCEPT !.pc = "done"]]
  /\ UNCHANGED <<boot, isCancelled, db, data, minClass, maxClass, status, dataset,
                 conns, queryLog, writers, views, res>>

\* conn.close() resolves (App.tsx 103); loadData settles.
CloseOk(r) ==
  /\ InFlight(r) /\ runs[r].pc = "close"
  /\ conns' = [conns EXCEPT ![runs[r].conn] = "closed"]
  /\ runs' = [runs EXCEPT ![r] = [@ EXCEPT !.pc = "done"]]
  /\ UNCHANGED <<boot, isCancelled, db, data, minClass, maxClass, status, dataset,
                 queryLog, writers, views, res>>

\* The step a run takes when the promise it awaits settles.
RunStep(r) ==
  \/ CloseOk(r)
  \/ ConnectFail(r) \/ SetupFail(r) \/ ColsFail(r) \/ QueryFail(r)
  \/ ConnectOk(r) \/ SetupOk(r) \/ ColsOk(r)
  \/ ParseFail(r) \/ Publish(r)

----------------------------------------------------------------------------
(* The specifications. *)

Next ==
  \/ BootstrapStart \/ SelectBundleOk \/ BootstrapFail \/ InstantiateOk \/ Unmount
  \/ TriggerOnReady \/ FilterChangeReady
  \/ \E r \in 1..MaxRuns : ConnectOk(r)
  \/ \E r \in 1..MaxRuns : ConnectFail(r)
  \/ \E r \in 1..MaxRuns : SetupOk(r)
  \/ \E r \in 1..MaxRuns : SetupFail(r)
  \/ \E r \in 1..MaxRuns : ColsOk(r)
  \/ \E r \in 1..MaxRuns : ColsFail(r)
  \/ \E r \in 1..MaxRuns : QueryFail(r)
  \/ \E r \in 1..MaxRuns : ParseFail(r)
  \/ \E r \in 1..MaxRuns : Publish(r)
  \/ \E r \in 1..MaxRuns : CloseOk(r)

\* Overlapping runs over the documented file: the filter changes while db is set.
Spec == Init /\ [][Next]_vars

\* The same, with the engine answering every request of a run: each promise a
\* run awaits settles.
FairSpec == Spec /\ \A r \in 1..MaxRuns : WF_vars(RunStep(r))

----------------------------------------------------------------------------
(* One run over a drawn file: the filter changes only while db is null. *)

NextSingle ==
  \/ BootstrapStart \/ SelectBundleOk \/ BootstrapFail \/ InstantiateOk \/ Unmount
  \/ TriggerOnReady \/ FilterChangeIdle
  \/ \E r \in 1..MaxRuns : ConnectOk(r)
  \/ \E r \in 1..MaxRuns : ConnectFail(r)
  \/ \E r \in 1..MaxRuns : SetupOk(r)
  \/ \E r \in 1..MaxRuns : SetupFail(r)
  \/ \E r \in 1..MaxRuns : ColsOk(r)
  \/ \E r \in 1..MaxRuns : ColsFail(r)
  \/ \E r \in 1..MaxRuns : QueryFail(r)
  \/ \E r \in 1..MaxRuns : ParseFail(r)
  \/ \E r \in 1..MaxRuns : Publish(r)
  \/ \E r \in 1..MaxRuns : CloseOk(r)

SeqsUpTo(S, n) == UNION {[1..k -> S] : k \in 0..n}

\* Columns as information_schema reports them: names and types in any case.
ColumnPool ==
  {Column("geometry", "GEOMETRY"), Column("GEOM", "blob"), Column("WKB_Geometry", "VARCHAR"),
   Column("wkb", "BLOB"), Column("the_geom", "WKB_BLOB"), Column("Class", "INTEGER"),
   Column("class_id", "INTEGER"), Column("VALUE", "DOUBLE"), Column("id", "BIGINT"),
   Column("wkb_extent", "BLOB")}

\* A table has no two columns of the same name.
DistinctNames(cols) ==
  \A i, j \in 1..Len(cols) : i # j => toLowerCase(cols[i].column_name) # toLowerCase(cols[j].column_name)

Schemas == {cols \in SeqsUpTo(ColumnPool, MaxCols) : DistinctNames(cols)}

\* Any schema, over rows of which one does not parse.
InitSchema ==
  /\ InitApp
  /\ res = NoTable
  /\ \E cols \in Schemas : dataset = [schema |-> cols, rows |-> DirtyDataset.rows]

SpecSchema == InitSchema /\ [][NextSingle]_vars

\* The cells of a row: the geometry text ST_AsGeoJSON yields and the raw class.
GeoCells == {Null, Text(""), Text("{P}"), Text("{bad")}
ClassCells == {Null, Text("1"), Text("x")}
RowPool == {Row(g, a) : g \in GeoCells, a \in ClassCells}

\* Any rows, the schema of the documented file.
InitRows ==
  /\ InitApp
  /\ res = NoTable
  /\ \E rows \in SeqsUpTo(RowPool, MaxRows) : dataset = [schema |-> CleanDataset.schema, rows |-> rows]

SpecRows == InitRows /\ [][NextSingle]_vars

----------------------------------------------------------------------------
(* The whole component: the filter changes before and after db is set. *)

NextApp ==
  \/ BootstrapStart \/ SelectBundleOk \/ BootstrapFail \/ InstantiateOk \/ Unmount
  \/ TriggerOnReady \/ FilterChangeIdle \/ FilterChangeReady
  \/ \E r \in 1..MaxRuns : ConnectOk(r)
  \/ \E r \in 1..MaxRuns : ConnectFail(r)
  \/ \E r \in 1..MaxRuns : SetupOk(r)
  \/ \E r \in 1..MaxRuns : SetupFail(r)
  \/ \E r \in 1..MaxRuns : ColsOk(r)
  \/ \E r \in 1..MaxRuns : ColsFail(r)
  \/ \E r \in 1..MaxRuns : QueryFail(r)
  \/ \E r \in 1..MaxRuns : ParseFail(r)
  \/ \E r \in 1..MaxRuns : Publish(r)
  \/ \E r \in 1..MaxRuns : CloseOk(r)

\* The file with a geometry text that is not JSON: a run succeeds or fails in
\* materialization, by its range.
InitDirty == InitApp /\ res = NoTable /\ dataset = DirtyDataset

\* React runs the effects of a render: the effect that follows setDb is not
\* put off for ever.
SpecApp == InitDirty /\ [][NextApp]_vars /\ WF_vars(TriggerOnReady)

----------------------------------------------------------------------------
(* Runs one after the other: the filter changes once the last run has settled. *)

\* The runs of a behaviour in which a filter range comes back: the range of the
\* first run, another range, and the first range again.
Reruns == MaxRuns + 1

\* A filter change while db is set and no call of loadData is pending.
FilterChangeSettled ==
  /\ boot = "done"
  /\ db = "ready"
  /\ Len(runs) < Reruns
  /\ \A r \in 1..Len(runs) : runs[r].pc = "done"
  /\ \E minVal \in FilterValues, maxVal \in FilterValues :
       /\ SetFilter(minVal, maxVal)
       /\ StartRun(minVal, maxVal)
  /\ UNCHANGED <<boot, isCancelled, db, data, dataset, conns, views, queryLog, writers, res>>

NextSequential ==
  \/ BootstrapStart \/ SelectBundleOk \/ BootstrapFail \/ InstantiateOk \/ Unmount
  \/ TriggerOnReady \/ FilterChangeSettled
  \/ \E r \in 1..Reruns : ConnectOk(r)
  \/ \E r \in 1..Reruns : ConnectFail(r)
  \/ \E r \in 1..Reruns : SetupOk(r)
  \/ \E r \in 1..Reruns : SetupFail(r)
  \/ \E r \in 1..Reruns : ColsOk(r)
  \/ \E r \in 1..Reruns : ColsFail(r)
  \/ \E r \in 1..Reruns : QueryFail(r)
  \/ \E r \in 1..Reruns : ParseFail(r)
  \/ \E r \in 1..Reruns : Publish(r)
  \/ \E r \in 1..Reruns : CloseOk(r)

SpecSequential == Init /\ [][NextSequential]_vars

----------------------------------------------------------------------------
(* The materializer alone, over a drawn table. *)

\* The cells of a table: geometry texts, among them the empty text and a text
\* that is not JSON, and classes, among them 0.
TableGeoCells == {Null, Text(""), Text("{P}"), Text("{Q}"), Text("{bad")}
TableClassCells == {NullInt, Int32(0), Int32(1)}

\* The tables of up to MaxRows rows; the column class_val has a cell per row, or
\* none where getChild('class_val') finds no column (App.tsx 88, 90).
Tables ==
  {[geojson |-> g, class_val |-> c] :
     g \in SeqsUpTo(TableGeoCells, MaxRows), c \in SeqsUpTo(TableClassCells, MaxRows)}

InitTable ==
  /\ InitApp
  /\ dataset = CleanDataset
  /\ \E table \in Tables :
       /\ Len(table.class_val) \in {0, Len(table.geojson)}
       /\ res = table

\* The loop of App.tsx 92-101 over the table, every cell parsing.
MaterializeOk ==
  /\ ~data.present
  /\ ~MaterializeTable(res).thrown
  /\ data' = Collection(MaterializeTable(res).features)
  /\ status' = Loaded(Len(MaterializeTable(res).features))
  /\ UNCHANGED <<boot, isCancelled, db, minClass, maxClass, dataset, runs, conns,
                 res, views, queryLog, writers>>

\* The loop throws at a cell that does not parse: nothing is published.
MaterializeThrows ==
  /\ ~data.present
  /\ MaterializeTable(res).thrown
  /\ UNCHANGED vars

NextTable == MaterializeOk \/ MaterializeThrows

SpecTable == InitTable /\ [][NextTable]_vars

----------------------------------------------------------------------------
(* Properties of overlapping runs. *)

Started == 1..Len(runs)
Settled(r) == runs[r].pc = "done"
Succeeded(r) == runs[r].pc \in {"close", "done"} /\ ~runs[r].thrown
HasConn(r) == runs[r].conn # 0
OpenConns == {c \in DOMAIN conns : conns[c] = "open"}

\* What a run with the range (minVal, maxVal) publishes when every step succeeds.
ResultFor(minVal, maxVal) ==
  Materialize(QueryResult(dataset, BuildSql(dataset.schema, minVal, maxVal)))

\* C1: every call of setData is made by a run whose filter range is still the
\* current range of the component: a superseded run never publishes.
C1_SupersededNeverPublishes ==
  \A i \in 1..Len(writers) :
    /\ runs[writers[i].r].minVal = writers[i].minClass
    /\ runs[writers[i].r].maxVal = writers[i].maxClass

\* C2: once every triggered run has completed successfully, the published
\* collection is the result of the most recently triggered run.
C2_LatestWins ==
  (Len(runs) > 0 /\ \A r \in Started : Settled(r) /\ ~runs[r].thrown)
    => data = Collection(ResultFor(runs[Len(runs)].minVal, runs[Len(runs)].maxVal).features)

\* C3: a run that holds an open connection eventually closes it, whatever step
\* fails, and no run is settled with its connection still open.
C3_ConnectionAlwaysClosed ==
  /\ [](\A r \in Started : (Settled(r) /\ HasConn(r)) => conns[runs[r].conn] = "closed")
  /\ \A r \in 1..MaxRuns :
       (r \in Started /\ HasConn(r) /\ conns[runs[r].conn] = "open")
         ~> (r \in Started /\ Settled(r) /\ HasConn(r) /\ conns[runs[r].conn] = "closed")

\* A run that threw after it had connected is settled, its connection closed.
C3_Witness ==
  \E r \in Started : runs[r].thrown /\ Settled(r) /\ HasConn(r) /\ conns[runs[r].conn] = "closed"

\* C4, as claimed: at most one connection is open at any time.
C4_OneOpenConnectionAtATime == Cardinality(OpenConns) <= 1

\* C4, amended: a connection stays open only while its run is in flight: every
\* open connection is held by exactly one run that has not settled, and a
\* settled run holds no open connection; runs that overlap each hold their own.
C4_OpenOnlyWhileInFlight ==
  /\ \A c \in OpenConns :
       Cardinality({r \in Started : runs[r].conn = c /\ ~Settled(r)}) = 1
  /\ \A r \in Started : (Settled(r) /\ HasConn(r)) => runs[r].conn \notin OpenConns
  /\ Cardinality(OpenConns) <= Cardinality({r \in Started : ~Settled(r)})

\* Two runs overlap, each with its own open connection.
C4_Witness ==
  \E r1, r2 \in Started :
    /\ r1 < r2 /\ HasConn(r1) /\ HasConn(r2)
    /\ conns[runs[r1].conn] = "open" /\ conns[runs[r2].conn] = "open"

\* C5: a run opens at most one connection, issues its queries on that connection
\* only, and no connection serves two runs.
C5_ConnectionOwnedByOneRun ==
  /\ \A p \in queryLog : p[1] \in Started /\ p[2] = runs[p[1]].conn /\ p[2] # 0
  /\ \A p1, p2 \in queryLog : p1[2] = p2[2] => p1[1] = p2[1]
  /\ \A r1, r2 \in Started : (HasConn(r1) /\ runs[r1].conn = runs[r2].conn) => r1 = r2
  /\ Cardinality({c \in DOMAIN conns : conns[c] # "unused"})
       = Cardinality({r \in Started : HasConn(r)})

\* Two runs overlap and both have issued queries.
C5_Witness ==
  \E r1, r2 \in Started :
    /\ r1 # r2 /\ runs[r1].pc = "query" /\ runs[r2].pc = "query"
    /\ <<r1, runs[r1].conn>> \in queryLog /\ <<r2, runs[r2].conn>> \in queryLog

\* C6: a run that failed never called setData: the published collection is
\* absent when no run succeeded, and otherwise the complete collection of the
\* run that published last.
C6_FailedRunLeavesData ==
  /\ \A i \in 1..Len(writers) : ~runs[writers[i].r].thrown
  /\ data = IF writers = <<>> THEN NoData
            ELSE LET w == runs[writers[Len(writers)].r]
                 IN Collection(ResultFor(w.minVal, w.maxVal).features)

\* A run failed on the second geometry cell, after the first had parsed, while
\* another run's collection is published.
C6_Witness ==
  \E r \in Started :
    /\ runs[r].thrown /\ runs[r].sql # NoSql
    /\ ResultFor(runs[r].minVal, runs[r].maxVal).thrown
    /\ ResultFor(runs[r].minVal, runs[r].maxVal).features # <<>>
    /\ data.present /\ Len(writers) > 0

----------------------------------------------------------------------------
(* Properties of discovery and of the query built from it. *)

\* The run has resolved the roles and built its query.
Discovered(r) == r \in Started /\ runs[r].sql # NoSql

NormName(i) == toLowerCase(dataset.schema[i].column_name)
Matching(cands) ==
  {i \in 1..Len(dataset.schema) : \E k \in 1..Len(cands) : cands[k] = NormName(i)}
Present(cands) == {k \in 1..Len(cands) : \E i \in 1..Len(dataset.schema) : cands[k] = NormName(i)}
Least(S) == CHOOSE x \in S : \A y \in S : x <= y

\* C7, as claimed: each role is the highest-priority candidate present in the
\* schema, whatever the order of the columns.
C7_HighestPriorityCandidateWins ==
  \A r \in Started : Discovered(r) =>
    /\ Present(GeomCands) # {} => runs[r].sql.geomCol = GeomCands[Least(Present(GeomCands))]
    /\ Present(ClassCands) # {} => runs[r].sql.classCol = ClassCands[Least(Present(ClassCands))]

\* C7, amended: each role is the first column, in schema order, whose normalized
\* name is one of the candidates; the order of the candidates plays no part.
C7_FirstMatchingColumnWins ==
  \A r \in Started : Discovered(r) =>
    /\ Matching(GeomCands) # {} => runs[r].sql.geomCol = NormName(Least(Matching(GeomCands)))
    /\ Matching(ClassCands) # {} => runs[r].sql.classCol = NormName(Least(Matching(ClassCands)))

\* A schema with two geometry candidates, the lower-priority one first.
C7_Witness ==
  \E r \in Started :
    /\ Discovered(r) /\ runs[r].sql.geomCol = "geom"
    /\ Len(dataset.schema) >= 2 /\ NormName(2) = "geometry"

\* C8: where no candidate matches a role, the role is the literal default, and
\* the run goes on to issue its query.
C8_DefaultsWhenNoMatch ==
  \A r \in Started :
    /\ Discovered(r) =>
         /\ Matching(GeomCands) = {} => runs[r].sql.geomCol = "geometry" /\ runs[r].sql.geomType = ""
         /\ Matching(ClassCands) = {} => runs[r].sql.classCol = "class"
    /\ runs[r].pc = "query" => Discovered(r) /\ ~runs[r].thrown

\* A run over a schema in which no column matches either role has issued its query.
C8_Witness ==
  \E r \in Started :
    /\ runs[r].pc = "query" /\ Len(dataset.schema) > 0
    /\ Matching(GeomCands) = {} /\ Matching(ClassCands) = {}
    /\ runs[r].sql.geomCol = "geometry" /\ runs[r].sql.classCol = "class"

\* The upper-cased types that contain BLOB and the lower-cased candidate names
\* that contain wkb.
BlobTypes == {"BLOB", "WKB_BLOB"}
WkbNames == {"wkb_geometry", "wkb"}

\* C9: the query parses the geometry column as WKB exactly when its type is a
\* BLOB type or its name contains wkb, and casts it to GEOMETRY otherwise.
C9_GeometryEncodingBranch ==
  \A r \in Started : Discovered(r) =>
    LET q == runs[r].sql
        i == IF Matching(GeomCands) = {} THEN 0 ELSE Least(Matching(GeomCands))
        type == IF i = 0 THEN "" ELSE dataset.schema[i].data_type
        binary == toUpperCase(type) \in BlobTypes \/ q.geomCol \in WkbNames
    IN q.geomExpr = IF binary THEN "ST_GeomFromWKB(\"" \o q.geomCol \o "\")"
                    ELSE "TRY_CAST(\"" \o q.geomCol \o "\" AS GEOMETRY)"

\* A VARCHAR column named wkb_geometry is parsed as WKB.
C9_Witness ==
  \E r \in Started :
    /\ Discovered(r) /\ runs[r].sql.geomCol = "wkb_geometry" /\ runs[r].sql.geomType = "VARCHAR"
    /\ Includes(runs[r].sql.geomExpr, "ST_GeomFromWKB")

----------------------------------------------------------------------------
(* Properties of the published collection. *)

\* The class of a row as the query normalizes it, and the geometry of a text.
NormalizedClass(cell) == IF cell = Text("1") THEN Int32(1) ELSE NullInt
GeometryOf(text) == IF text = "{P}" THEN "P" ELSE "?"

InRange(cell, minVal, maxVal) ==
  NormalizedClass(cell).null
    \/ (minVal <= NormalizedClass(cell).v /\ NormalizedClass(cell).v <= maxVal)

FeatureOfRow(i) ==
  [geometry |-> GeometryOf(dataset.rows[i].g.v),
   properties |-> [class_val |-> NormalizedClass(dataset.rows[i].a)]]

\* The k-th row of a set of rows, in source order.
Kth(K, k) == CHOOSE i \in K : Cardinality({j \in K : j <= i}) = k

\* The published collection holds one feature per row of K, in source order.
PublishedExactly(K) ==
  /\ data.present
  /\ Len(data.features) = Cardinality(K)
  /\ \A k \in 1..Len(data.features) : data.features[k] = FeatureOfRow(Kth(K, k))

\* C10, as claimed: for min <= max a successful run publishes one feature per row
\* whose geometry text is non-null and whose class is null or in [min, max].
C10_NonNullRowsPublished ==
  \A r \in Started : (Succeeded(r) /\ runs[r].minVal <= runs[r].maxVal) =>
    PublishedExactly({i \in 1..Len(dataset.rows) :
      ~dataset.rows[i].g.null /\ InRange(dataset.rows[i].a, runs[r].minVal, runs[r].maxVal)})

\* C10, amended: one feature per row whose geometry text is neither null nor
\* empty and whose class is null or in [min, max], in source order.
C10_NonEmptyRowsPublished ==
  \A r \in Started : (Succeeded(r) /\ runs[r].minVal <= runs[r].maxVal) =>
    PublishedExactly({i \in 1..Len(dataset.rows) :
      /\ ~dataset.rows[i].g.null /\ dataset.rows[i].g.v # ""
      /\ InRange(dataset.rows[i].a, runs[r].minVal, runs[r].maxVal)})

\* A published collection that keeps a row without class and skips a row whose
\* geometry text is empty.
C10_Witness ==
  \E r \in Started :
    /\ Succeeded(r) /\ runs[r].minVal <= runs[r].maxVal /\ Len(data.features) >= 1
    /\ \E i, j \in 1..Len(dataset.rows) :
         /\ dataset.rows[i].g = Text("")
         /\ dataset.rows[j].g = Text("{P}") /\ dataset.rows[j].a = Null

\* C11: for min > max a successful run publishes a collection, and it holds one
\* feature per row with a geometry text and a null class, and no feature of a
\* row whose class is not null.
C11_InvertedRangeKeepsNullClassOnly ==
  \A r \in Started : (Succeeded(r) /\ runs[r].minVal > runs[r].maxVal) =>
    /\ status = Loaded(Len(data.features))
    /\ \A k \in 1..Len(data.features) : data.features[k].properties.class_val.null
    /\ PublishedExactly({i \in 1..Len(dataset.rows) :
         /\ ~dataset.rows[i].g.null /\ dataset.rows[i].g.v # ""
         /\ NormalizedClass(dataset.rows[i].a).null})

\* A run with the range (25, 1) succeeded over a row of class 1 and a row
\* without class: the collection holds the latter only.
C11_Witness ==
  \E r \in Started :
    /\ Succeeded(r) /\ runs[r].minVal > runs[r].maxVal /\ Len(data.features) = 1
    /\ \E i, j \in 1..Len(dataset.rows) :
         /\ dataset.rows[i] = Row(Text("{P}"), Text("1"))
         /\ dataset.rows[j] = Row(Text("{P}"), Null)

----------------------------------------------------------------------------
(* Properties of runs that follow one another. *)

SameRange(r1, r2) == runs[r1].minVal = runs[r2].minVal /\ runs[r1].maxVal = runs[r2].maxVal

\* C12: two runs with the same filter range that called setData passed it the
\* same features; each run publishes what a run on a fresh engine publishes for
\* its range; the view gp selects from the file once, however often registered.
C12_SameRangeSameCollection ==
  /\ \A i, j \in 1..Len(writers) :
       SameRange(writers[i].r, writers[j].r) => writers[i].features = writers[j].features
  /\ \A i \in 1..Len(writers) :
       writers[i].features
         = ResultFor(runs[writers[i].r].minVal, runs[writers[i].r].maxVal).features
  /\ Len(views.gp) <= 1

\* The first range came back: the first and the third run published for it,
\* after the view was registered three times.
C12_Witness ==
  \E i, j \in 1..Len(writers) :
    /\ writers[i].r < writers[j].r /\ SameRange(writers[i].r, writers[j].r)
    /\ writers[j].features # <<>>
    /\ \A r \in Started : Succeeded(r)

----------------------------------------------------------------------------
(* Properties of the trigger. *)

RangeChanges == minClass' # minClass \/ maxClass' # maxClass

\* The step appends one call of loadData, with the range (minVal, maxVal).
Starts(minVal, maxVal) ==
  /\ Len(runs') = Len(runs) + 1
  /\ SubSeq(runs', 1, Len(runs)) = runs
  /\ runs'[Len(runs')] = NewRun(minVal, maxVal)

\* C13: the step that follows the publication of the handle starts a run with
\* the range of that moment, and it is taken; while db is set every change of
\* the range starts a run with the new range; a change while db is null starts
\* none; and no run starts otherwise.
C13_RunsStartOnReadyAndOnChange ==
  /\ [][/\ (db = "null" /\ db' = "ready") => (boot' = "effect" /\ ~RangeChanges)
        /\ boot = "effect" => (Starts(minClass, maxClass) /\ ~RangeChanges)
        /\ (db = "ready" /\ RangeChanges) => Starts(minClass', maxClass')
        /\ (db = "null" /\ RangeChanges) => runs' = runs
        /\ Len(runs') # Len(runs) => (db = "ready" /\ (boot = "effect" \/ RangeChanges))]_vars
  /\ (db = "ready") ~> (Len(runs) >= 1)

\* The range was changed while db was null, the first run took the changed
\* range, and a change while db was set started a second run with the new range.
C13_Witness ==
  /\ Len(runs) >= 2
  /\ <<runs[1].minVal, runs[1].maxVal>> # <<MinInput, MaxInput>>
  /\ <<runs[2].minVal, runs[2].maxVal>> # <<runs[1].minVal, runs[1].maxVal>>
  /\ <<runs[2].minVal, runs[2].maxVal>> = <<minClass, maxClass>>

----------------------------------------------------------------------------
(* Properties of the status message. *)

\* The messages the component sets (App.tsx 20, 26, 34, 43, 101).
Messages ==
  {"Initializing...", "Loading DuckDB...", "DuckDB ready", "Querying parquet via HTTP...",
   "Loaded features"}

\* C14: a step in which a run fails, or in which a failed run goes on to close
\* its connection, leaves the status as it is; the status is one of the
\* messages of the success path, never a failure message; and while every run
\* started so far has failed the status is still the one set at a run's start.
C14_FailedRunWritesNoStatus ==
  /\ [][\A r \in 1..Len(runs) :
          (runs'[r].thrown /\ runs'[r] # runs[r]) => status' = status]_vars
  /\ [](status.msg \in Messages)
  /\ []((Len(runs) > 0 /\ \A r \in Started : runs[r].thrown)
          => status = Status("Querying parquet via HTTP..."))

\* Two runs have failed, one in schema discovery and one in query execution,
\* and are settled: the status still reads as set at the start of a run.
C14_Witness ==
  /\ status = Status("Querying parquet via HTTP...")
  /\ \E r1, r2 \in Started :
       /\ runs[r1].thrown /\ Settled(r1) /\ HasConn(r1) /\ runs[r1].sql = NoSql
       /\ runs[r2].thrown /\ Settled(r2) /\ runs[r2].sql # NoSql

\* C17: the step that starts a run sets the status of a query under way; the
\* step in which a run calls setData sets the collection and the status that
\* counts its features, and no other step sets either; so whenever the status
\* counts features, it counts the features of the published collection.
C17_StatusCountsPublishedFeatures ==
  /\ [](status.msg = "Loaded features"
          => (data.present /\ status = Loaded(Len(data.features))))
  /\ [][/\ Len(runs') > Len(runs) => status' = Status("Querying parquet via HTTP...")
        /\ Len(writers') > Len(writers) =>
             /\ data' = Collection(writers'[Len(writers')].features)
             /\ status' = Loaded(Len(writers'[Len(writers')].features))
        /\ (data' # data \/ (status' # status /\ status'.msg = "Loaded features"))
             => Len(writers') > Len(writers)]_vars

\* Two runs overlapped and both published; the status counts the one feature of
\* the collection published last, not the two of the collection before it.
C17_Witness ==
  /\ Len(writers) = 2 /\ Len(writers[1].features) = 2 /\ Len(writers[2].features) = 1
  /\ \E r1, r2 \in Started : r1 # r2 /\ runs[r1].pc = "close" /\ runs[r2].pc = "close"
  /\ status = Loaded(1) /\ Len(data.features) = 1

----------------------------------------------------------------------------
(* Properties of the bootstrap. *)

\* The bootstrap has ended without a handle: a step threw, or instantiate
\* resolved after the teardown.
BootstrapLost == boot \in {"failed", "cancelled"}

\* C15: the bootstrap starts once, from the mount, and never again; db is set
\* at most once, by the resolution of instantiate, and is never unset; after a
\* step threw, or once the component is torn down during the bootstrap, db
\* stays null and no run starts.
C15_BootstrapOnceHandleAtMostOnce ==
  /\ [][/\ boot' = "mount" => boot = "mount"
        /\ (boot' = "selectBundle" /\ boot # "selectBundle") => boot = "mount"
        /\ db' # db => (db = "null" /\ db' = "ready" /\ boot = "instantiate" /\ ~isCancelled)
        /\ BootstrapLost => boot' = boot
        /\ isCancelled => isCancelled']_vars
  /\ []((BootstrapLost \/ isCancelled) => (db = "null" /\ runs = <<>> /\ ~data.present))
  /\ [](runs # <<>> => (db = "ready" /\ boot = "done"))

\* instantiate resolved after the teardown: no handle, no run.
C15_Witness ==
  /\ boot = "cancelled" /\ isCancelled
  /\ db = "null" /\ runs = <<>>
  /\ status = Status("Loading DuckDB...")

\* C18: while db is null no run has started, no connection is open and no
\* collection is published; a collection is published only in a state in which
\* db is set, and db, once set, stays set.
C18_NothingBeforeTheHandle ==
  /\ [](db = "null" => (runs = <<>> /\ OpenConns = {} /\ data = NoData /\ writers = <<>>))
  /\ [](data.present => db = "ready")
  /\ [][(~data.present /\ data'.present) => (db = "ready" /\ db' = "ready")]_vars
  /\ [][db = "ready" => db' = "ready"]_vars

\* A collection is published and a connection is open, the handle being set;
\* the range had been changed while db was null.
C18_Witness ==
  /\ db = "ready" /\ data.present /\ OpenConns # {}
  /\ <<runs[1].minVal, runs[1].maxVal>> # <<MinInput, MaxInput>>

----------------------------------------------------------------------------
(* Properties of the materializer. *)

\* The rows of the table that yield a feature, and what their cells stand for.
Kept == {i \in 1..Len(res.geojson) : ~res.geojson[i].null /\ res.geojson[i].v # ""}
GeometryOfCell(cell) ==
  IF cell = Text("{P}") THEN "P" ELSE IF cell = Text("{Q}") THEN "Q" ELSE "?"
ClassOfRow(i) ==
  IF i \in 1..Len(res.class_val) /\ ~res.class_val[i].null THEN res.class_val[i] ELSE NullInt

\* C16: the features of a table are as many as its rows whose geometry text is
\* neither null nor empty; the k-th feature is made of the k-th such row, in
\* row order, with the geometry of that row and the class cell of that row, or
\* null where that cell is null or the table has no class column.
C16_OneFeaturePerKeptRow ==
  data.present =>
    /\ Len(data.features) = Cardinality(Kept)
    /\ \A k \in 1..Len(data.features) :
         /\ data.features[k].geometry = GeometryOfCell(res.geojson[Kth(Kept, k)])
         /\ data.features[k].properties.class_val = ClassOfRow(Kth(Kept, k))

\* A table whose first row is skipped and whose second row has the class 0:
\* its one feature carries the class 0 of the second row.
C16_Witness ==
  /\ data.present /\ Len(data.features) = 1
  /\ Len(res.geojson) = 2 /\ res.geojson[1] = Text("") /\ res.geojson[2] = Text("{Q}")
  /\ res.class_val = <<Int32(1), Int32(0)>>

----------------------------------------------------------------------------
(* Properties of the range a run filters with. *)

\* The ranges the component has had when a run was triggered.
TriggerRanges == {<<runs[r].minVal, runs[r].maxVal>> : r \in Started}

\* C19: a run is started with the range of the component at that step and keeps
\* it to its end; the query it issues carries that range, whatever the range of
\* the component has become; and every call of setData passes the result for the
\* range of the run that makes it, a range some run was triggered with.
C19_RunFiltersWithCapturedRange ==
  /\ [][/\ Len(runs') > Len(runs) =>
             /\ runs'[Len(runs')].minVal = minClass'
             /\ runs'[Len(runs')].maxVal = maxClass'
        /\ \A r \in Started :
             runs'[r].minVal = runs[r].minVal /\ runs'[r].maxVal = runs[r].maxVal]_vars
  /\ [](\A r \in Started : Discovered(r) =>
          (runs[r].sql.minVal = runs[r].minVal /\ runs[r].sql.maxVal = runs[r].maxVal))
  /\ [](\A i \in 1..Len(writers) :
          /\ writers[i].features
               = ResultFor(runs[writers[i].r].minVal, runs[writers[i].r].maxVal).features
          /\ \E range \in TriggerRanges : writers[i].features = ResultFor(range[1], range[2]).features)
  /\ [](data.present =>
          \E range \in TriggerRanges : data.features = ResultFor(range[1], range[2]).features)

\* The first run published the result for the range it was called with, after
\* a second run had been triggered with another range.
C19_Witness ==
  /\ Len(runs) = 2 /\ Len(writers) = 1 /\ writers[1].r = 1
  /\ <<runs[1].minVal, runs[1].maxVal>> # <<minClass, maxClass>>
  /\ data.features = ResultFor(runs[1].minVal, runs[1].maxVal).features
  /\ data.features # ResultFor(minClass, maxClass).features

====
